---- MODULE Spec2Model ----
(***************************************************************************)
(* A model of numble_solver.py: the Step expression tree, its canonical    *)
(* construction, ordering and rendering, the operations generator, the     *)
(* recursive search solve and the ranking done by solve_puzzle.            *)
(*                                                                         *)
(* A Step is a tuple: a leaf is <<value>>, an internal node is             *)
(* <<value, left, op, right>>.  The operators are written "+", "-", "*"    *)
(* (the source's multiplication sign) and "/" (the source's division       *)
(* sign).  A rendered string is the sequence of its Unicode code points,   *)
(* so that Python's string comparison is the lexicographic order on it.    *)
(***************************************************************************)
EXTENDS Integers, Sequences, FiniteSets, TLC

\* Bounds of the model.
MaxN == 3
MaxVal == 3
MaxTarget == 6

\* The integers an input list is drawn from, and the targets.
Pool == 0..MaxVal
Targets == 0..MaxTarget

\* The lists of length lo..hi over S.
SeqsOf(S, lo, hi) == UNION {[1..n -> S] : n \in lo..hi}

-----------------------------------------------------------------------------
\* class Step

IsLeaf(s) == Len(s) = 1
value(s) == s[1]
left(s) == s[2]
op(s) == s[3]
right(s) == s[4]

\* Step.__len__: the number of leaves.
RECURSIVE StepLen(_)
StepLen(s) == IF IsLeaf(s) THEN 1 ELSE StepLen(left(s)) + StepLen(right(s))

\* Step.operations: the counts <<div, mul, sub, add>>.
RECURSIVE StepOperations(_)
StepOperations(s) ==
    IF IsLeaf(s) THEN <<0, 0, 0, 0>>
    ELSE LET l == StepOperations(left(s))
             r == StepOperations(right(s))
         IN  << l[1] + r[1] + (IF op(s) = "/" THEN 1 ELSE 0),
                l[2] + r[2] + (IF op(s) = "*" THEN 1 ELSE 0),
                l[3] + r[3] + (IF op(s) = "-" THEN 1 ELSE 0),
                l[4] + r[4] + (IF op(s) = "+" THEN 1 ELSE 0) >>

\* Python's < on two sequences of integers of any length.
RECURSIVE SeqLess(_, _)
SeqLess(a, b) ==
    IF a = <<>> THEN b # <<>>
    ELSE IF b = <<>> THEN FALSE
    ELSE IF Head(a) # Head(b) THEN Head(a) < Head(b)
    ELSE SeqLess(Tail(a), Tail(b))

\* Step.__lt__
StepLt(a, b) ==
    IF value(a) # value(b) THEN value(a) < value(b)
    ELSE IF StepLen(a) # StepLen(b) THEN StepLen(a) < StepLen(b)
    ELSE SeqLess(StepOperations(a), StepOperations(b))

\* Step.__init__ with an operator and two children, and its _normalize.
MkStep(v, l, o, r) ==
    IF o \in {"+", "*"} /\ StepLt(l, r) THEN <<v, r, o, l>> ELSE <<v, l, o, r>>

\* Step.__init__ of a bare number.
Leaf(v) == <<v>>

\* Python's floor division and remainder, for a divisor other than 0.
PyFloorDiv(a, b) == IF b > 0 THEN a \div b ELSE (0 - a) \div (0 - b)
PyMod(a, b) == a - b * PyFloorDiv(a, b)

StepAdd(a, b) == MkStep(value(a) + value(b), a, "+", b)
StepSub(a, b) == MkStep(value(a) - value(b), a, "-", b)
StepMul(a, b) == MkStep(value(a) * value(b), a, "*", b)
StepTrueDiv(a, b) == MkStep(PyFloorDiv(value(a), value(b)), a, "/", b)

\* str of an integer, as code points ("-" is 45, "0" is 48).
RECURSIVE NatStr(_)
NatStr(n) == IF n < 10 THEN <<48 + n>> ELSE NatStr(n \div 10) \o <<48 + (n % 10)>>
IntStr(n) == IF n < 0 THEN <<45>> \o NatStr(0 - n) ELSE NatStr(n)

\* The code point of an operator as Step.__str__ prints it.
OpChar(o) ==
    CASE o = "+" -> 43
      [] o = "-" -> 45
      [] o = "*" -> 215
      [] o = "/" -> 247

\* f'({x})'
Paren(x) == <<40>> \o x \o <<41>>

\* Line 85 with the multiplication sign left out of the second tuple.
LeftNeedsParenDivOnly(s) ==
    /\ ~IsLeaf(left(s))
    /\ op(left(s)) \in {"+", "-"}
    /\ op(s) \in {"/"}

\* Step.__str__, line 85: the left operand is put in parentheses.
LeftNeedsParen(s) ==
    /\ ~IsLeaf(left(s))
    /\ op(left(s)) \in {"+", "-"}
    /\ op(s) \in {"*", "/"}

\* Step.__str__, line 88: the right operand is put in parentheses.
RightNeedsParen(s) ==
    \/ op(s) = "/" /\ ~IsLeaf(right(s))
    \/ op(s) \in {"*", "-"} /\ ~IsLeaf(right(s)) /\ op(right(s)) \in {"+", "-"}

\* Step.__str__
RECURSIVE StepStr(_)
StepStr(s) ==
    IF IsLeaf(s) THEN IntStr(value(s))
    ELSE LET l == IF LeftNeedsParen(s) THEN Paren(StepStr(left(s)))
                  ELSE StepStr(left(s))
             r == IF RightNeedsParen(s) THEN Paren(StepStr(right(s)))
                  ELSE StepStr(right(s))
         IN  l \o <<32, OpChar(op(s)), 32>> \o r

-----------------------------------------------------------------------------
\* operations(numbers)

\* The k-th ordered pair of two different indices in 1..n, in lexicographic
\* order.
PairAt(n, k) ==
    LET i == ((k - 1) \div (n - 1)) + 1
        jj == ((k - 1) % (n - 1)) + 1
    IN  <<i, IF jj >= i THEN jj + 1 ELSE jj>>

IsAscending(p) == p[1] < p[2]

\* itertools.combinations(range(n), 2), in the order it yields them.
Combinations2(n) == SelectSeq([k \in 1..(n * (n - 1)) |-> PairAt(n, k)], IsAscending)

\* The second loop run over combinations, as the first loop is.
PermutationsAsCombinations(n) == Combinations2(n)

\* itertools.permutations(range(n), 2), in the order it yields them.
Permutations2(n) == [k \in 1..(n * (n - 1)) |-> PairAt(n, k)]

\* The first loop's yields for one pair (lines 112-116).
CombYields(l, r) ==
    <<StepAdd(l, r)>> \o
    (IF value(l) # 1 /\ value(r) # 1 THEN <<StepMul(l, r)>> ELSE <<>>)

\* Line 120 with >= for >.
SubGuardNonStrict(l, r) == value(l) >= value(r)

\* The guard of the subtraction (line 120).
SubGuard(l, r) == value(l) > value(r)

\* The second loop's yields for one pair (lines 120-125); raises is TRUE when
\* the remainder of line 124 is taken by zero (ZeroDivisionError).
PermYields(l, r) ==
    LET sub == IF SubGuard(l, r) THEN <<StepSub(l, r)>> ELSE <<>>
    IN  IF value(r) # 1 /\ value(r) = 0
        THEN [yields |-> sub, raises |-> TRUE]
        ELSE IF value(r) # 1 /\ PyMod(value(l), value(r)) = 0
        THEN [yields |-> sub \o <<StepTrueDiv(l, r)>>, raises |-> FALSE]
        ELSE [yields |-> sub, raises |-> FALSE]

RECURSIVE CombLoop(_, _, _)
CombLoop(numbers, pairs, k) ==
    IF k > Len(pairs) THEN <<>>
    ELSE CombYields(numbers[pairs[k][1]], numbers[pairs[k][2]])
         \o CombLoop(numbers, pairs, k + 1)

RECURSIVE PermLoop(_, _, _)
PermLoop(numbers, pairs, k) ==
    IF k > Len(pairs) THEN [yields |-> <<>>, raises |-> FALSE]
    ELSE LET y == PermYields(numbers[pairs[k][1]], numbers[pairs[k][2]])
         IN  IF y.raises THEN y
             ELSE LET rest == PermLoop(numbers, pairs, k + 1)
                  IN  [yields |-> y.yields \o rest.yields, raises |-> rest.raises]

\* The generator operations(numbers): the Steps it yields, in order, and
\* whether it then raises ZeroDivisionError instead of finishing.
operations(numbers) ==
    LET n == Len(numbers)
        perm == PermLoop(numbers, Permutations2(n), 1)
    IN  IF n < 2 THEN [yields |-> <<>>, raises |-> FALSE]
        ELSE [yields |-> CombLoop(numbers, Combinations2(n), 1) \o perm.yields,
              raises |-> perm.raises]

\* A remove that drops every element equal to x, not only the first.
RemoveAll(list, x) == SelectSeq(list, LAMBDA e : e # x)

\* list.remove(x): the list without its first element equal to x.
RECURSIVE Remove(_, _)
Remove(list, x) ==
    IF list = <<>> THEN <<>>
    ELSE IF Head(list) = x THEN Tail(list)
    ELSE <<Head(list)>> \o Remove(Tail(list), x)

\* next_numbers of solve (lines 140-142).
NextNumbers(numbers, replacement) ==
    Remove(Remove(numbers \o <<replacement>>, left(replacement)),
           right(replacement))

-----------------------------------------------------------------------------
\* solve_puzzle and solve

VARIABLES
    target,     \* solve_puzzle's target
    numbers,    \* solve_puzzle's numbers, a list of integers
    pc,         \* "start", "solve", "rank", "done" or "raised"
    stack,      \* the active calls of solve, outermost first: each has its
                \* list numbers, its generator gen (what operations(numbers)
                \* yields, in order, and whether it then raises) and i, the
                \* index of the generator's next yield
    results,    \* the set results shared by all calls of solve
    result,     \* what solve_puzzle returns; None before it returns
    err         \* the exception that left solve_puzzle, or "none"

vars == <<target, numbers, pc, stack, results, result, err>>

\* Python's None, where a Step is expected.
None == <<>>

Top == stack[Len(stack)]

\* A call solve(target, nums, results), about to start its loop (line 133).
Call(nums) == [numbers |-> nums, gen |-> operations(nums), i |-> 1]

Init ==
    /\ target \in Targets
    /\ numbers \in SeqsOf(Pool, 1, MaxN)
    /\ pc = "start"
    /\ stack = <<>>
    /\ results = {}
    /\ result = None
    /\ err = "none"

\* Line 170 testing the first number only.
TargetIsFirstNumber == numbers[1] = target

\* target in numbers (line 170).
TargetInNumbers == \E k \in 1..Len(numbers) : numbers[k] = target

\* solve_puzzle, lines 170-175: the short circuit, or the first call of solve.
SolvePuzzle ==
    /\ pc = "start"
    /\ IF TargetInNumbers
       THEN /\ result' = Leaf(target)
            /\ pc' = "done"
            /\ UNCHANGED stack
       ELSE /\ stack' = <<Call([k \in 1..Len(numbers) |-> Leaf(numbers[k])])>>
            /\ pc' = "solve"
            /\ UNCHANGED result
    /\ UNCHANGED <<target, numbers, results, err>>

\* The test of line 134.
IsSolution(replacement) == value(replacement) = target

\* solve, lines 133-143: one iteration of the loop over operations(numbers).
SolveIterate ==
    /\ pc = "solve"
    /\ LET n == Len(stack)
       IN  /\ Top.i <= Len(Top.gen.yields)
           /\ LET replacement == Top.gen.yields[Top.i]
                  caller == [stack EXCEPT ![n].i = @ + 1]
              IN  IF IsSolution(replacement)
                  THEN /\ results' = results \cup {replacement}
                       /\ stack' = caller
                       /\ UNCHANGED <<pc, err>>
                  ELSE IF IsLeaf(replacement)
                  THEN /\ pc' = "raised"
                       /\ err' = "ValueError"
                       /\ stack' = <<>>
                       /\ UNCHANGED results
                  ELSE /\ stack' = Append(caller,
                                     Call(NextNumbers(Top.numbers, replacement)))
                       /\ UNCHANGED <<pc, err, results>>
    /\ UNCHANGED <<target, numbers, result>>

\* operations, line 124: the generator takes a remainder by zero; the
\* ZeroDivisionError leaves every call of solve and solve_puzzle.
SolveRaise ==
    /\ pc = "solve"
    /\ Top.i > Len(Top.gen.yields)
    /\ Top.gen.raises
    /\ pc' = "raised"
    /\ err' = "ZeroDivisionError"
    /\ stack' = <<>>
    /\ UNCHANGED <<target, numbers, results, result>>

\* solve: the generator is exhausted and the call returns.
SolveReturn ==
    /\ pc = "solve"
    /\ Top.i > Len(Top.gen.yields)
    /\ ~Top.gen.raises
    /\ stack' = SubSeq(stack, 1, Len(stack) - 1)
    /\ pc' = IF Len(stack) = 1 THEN "rank" ELSE "solve"
    /\ UNCHANGED <<target, numbers, results, result, err>>

\* Line 178 taking an element of the set without sorting it.
AnyElement(set) == set

\* What sorted(results)[0] can be.  sorted is stable and uses only __lt__, so
\* its first element is the first, in the set's iteration order, of the
\* Steps that no other Step is less than; the iteration order of a set of
\* Steps follows their hashes (line 38: the operator strings are hashed,
\* differently in each process), so it is any of them.
SortedFirst(set) == {r \in set : \A o \in set : ~StepLt(o, r)}

\* solve_puzzle, lines 177-180.
Rank ==
    /\ pc = "rank"
    /\ IF results # {}
       THEN result' \in SortedFirst(results)
       ELSE result' = None
    /\ pc' = "done"
    /\ UNCHANGED <<target, numbers, stack, results, err>>

Next == SolvePuzzle \/ SolveIterate \/ SolveRaise \/ SolveReturn \/ Rank

Spec == Init /\ [][Next]_vars

\* The same program started on the lists one longer than MaxN.
InitWide ==
    /\ target \in Targets
    /\ numbers \in SeqsOf(Pool, MaxN + 1, MaxN + 1)
    /\ pc = "start"
    /\ stack = <<>>
    /\ results = {}
    /\ result = None
    /\ err = "none"

SpecWide == InitWide /\ [][Next]_vars

-----------------------------------------------------------------------------
\* The vocabulary of the properties: what a legal expression tree over the
\* inputs is, and what a rendered string evaluates to.  None of this is
\* taken from the program; the trees are built as written, without the
\* canonical swap.

AllPositive == \A k \in 1..Len(numbers) : numbers[k] > 0

\* The results of the four operators on l and r that the generator rules allow.
LegalOps(l, r) ==
    {<<l[1] + r[1], l, "+", r>>}
    \cup (IF l[1] # 1 /\ r[1] # 1 THEN {<<l[1] * r[1], l, "*", r>>} ELSE {})
    \cup (IF l[1] > r[1] THEN {<<l[1] - r[1], l, "-", r>>} ELSE {})
    \cup (IF r[1] # 1 /\ r[1] # 0 /\ PyMod(l[1], r[1]) = 0
          THEN {<<PyFloorDiv(l[1], r[1]), l, "/", r>>} ELSE {})

\* The legal trees whose leaves are exactly the inputs at the indices S.
RECURSIVE TreesOver(_)
TreesOver(S) ==
    IF Cardinality(S) = 1 THEN {<<numbers[CHOOSE k \in S : TRUE]>>}
    ELSE UNION {UNION {LegalOps(l, r) : <<l, r>> \in TreesOver(A) \X TreesOver(S \ A)}
                : A \in (SUBSET S) \ {{}, S}}

\* The legal trees over the sub-multisets of at most m of the inputs.
LegalUpTo(m) ==
    UNION {TreesOver(S) : S \in {X \in SUBSET (1..Len(numbers)) :
                                    X # {} /\ Cardinality(X) <= m}}

\* The legal trees over every sub-multiset of the inputs.
AllLegal == LegalUpTo(Len(numbers))

LegalSolutions == {t \in AllLegal : t[1] = target}

\* t has a proper subexpression of value v.
RECURSIVE HasValueBelow(_, _)
HasValueBelow(t, v) ==
    /\ Len(t) = 4
    /\ \/ t[2][1] = v
       \/ t[4][1] = v
       \/ HasValueBelow(t[2], v)
       \/ HasValueBelow(t[4], v)

\* t and u are the same tree up to the order of the operands of + and *.
RECURSIVE CommEq(_, _)
CommEq(t, u) ==
    IF Len(t) = 1 \/ Len(u) = 1 THEN t = u
    ELSE /\ t[1] = u[1]
         /\ t[3] = u[3]
         /\ \/ CommEq(t[2], u[2]) /\ CommEq(t[4], u[4])
            \/ t[3] \in {"+", "*"} /\ CommEq(t[2], u[4]) /\ CommEq(t[4], u[2])

\* t is simpler than u: fewer leaves, or as many and a smaller profile.
Simpler(t, u) ==
    \/ StepLen(t) < StepLen(u)
    \/ StepLen(t) = StepLen(u) /\ SeqLess(StepOperations(t), StepOperations(u))

\* The value of a rendered string under standard precedence: the signs 215
\* and 247 bind tighter than 43 and 45, operators of one precedence associate
\* to the left, and 247 is integer division.
CharAt(s, i) == IF i <= Len(s) THEN s[i] ELSE 0

RECURSIVE SkipSpaces(_, _)
SkipSpaces(s, i) == IF CharAt(s, i) = 32 THEN SkipSpaces(s, i + 1) ELSE i

RECURSIVE ParseNumber(_, _, _)
ParseNumber(s, i, acc) ==
    IF CharAt(s, i) \in 48..57
    THEN ParseNumber(s, i + 1, acc * 10 + (CharAt(s, i) - 48))
    ELSE <<acc, i>>

RECURSIVE ParseExpr(_, _)
RECURSIVE ParseTerm(_, _)
RECURSIVE ParseFactor(_, _)
RECURSIVE ExprRest(_, _, _)
RECURSIVE TermRest(_, _, _)

ParseFactor(s, i) ==
    LET j == SkipSpaces(s, i)
    IN  IF CharAt(s, j) = 40
        THEN LET e == ParseExpr(s, j + 1)
             IN  <<e[1], SkipSpaces(s, e[2]) + 1>>
        ELSE ParseNumber(s, j, 0)

TermRest(s, acc, i) ==
    LET j == SkipSpaces(s, i)
    IN  IF CharAt(s, j) = 215
        THEN LET f == ParseFactor(s, j + 1) IN TermRest(s, acc * f[1], f[2])
        ELSE IF CharAt(s, j) = 247
        THEN LET f == ParseFactor(s, j + 1) IN TermRest(s, acc \div f[1], f[2])
        ELSE <<acc, j>>

ParseTerm(s, i) == LET f == ParseFactor(s, i) IN TermRest(s, f[1], f[2])

ExprRest(s, acc, i) ==
    LET j == SkipSpaces(s, i)
    IN  IF CharAt(s, j) = 43
        THEN LET t == ParseTerm(s, j + 1) IN ExprRest(s, acc + t[1], t[2])
        ELSE IF CharAt(s, j) = 45
        THEN LET t == ParseTerm(s, j + 1) IN ExprRest(s, acc - t[1], t[2])
        ELSE <<acc, j>>

ParseExpr(s, i) == LET t == ParseTerm(s, i) IN ExprRest(s, t[1], t[2])

EvalStr(s) == ParseExpr(s, 1)[1]

\* Every Step the program holds: the working lists, what the generators
\* yield, the solutions and the returned Step.
HeldSteps ==
    UNION {{stack[k].numbers[j] : j \in 1..Len(stack[k].numbers)}
           \cup {stack[k].gen.yields[j] : j \in 1..Len(stack[k].gen.yields)}
           : k \in 1..Len(stack)}
    \cup results
    \cup (IF result = None THEN {} ELSE {result})

-----------------------------------------------------------------------------
\* C1: for positive inputs, the rendered string of the returned node
\* evaluates, under standard precedence, to the target.
C1_RenderedEvaluatesToTarget ==
    (AllPositive /\ pc = "done" /\ result # None)
        => EvalStr(StepStr(result)) = target

\* A search returned a node whose rendering needs parentheses.
C1_Witness ==
    /\ AllPositive
    /\ pc = "done"
    /\ result # None
    /\ ~IsLeaf(result)
    /\ \E k \in 1..Len(StepStr(result)) : StepStr(result)[k] = 40

\* The order of value, size, operator profile and then rendered string.
StrOrderLess(a, b) ==
    \/ StepLt(a, b)
    \/ ~StepLt(b, a) /\ SeqLess(StepStr(a), StepStr(b))

\* C2: the returned node is the unique least solution under value, size,
\* operator profile and then rendered string: every other solution is
\* greater in that order (stated as the claim states it).
C2_LeastByRenderedStringReturned ==
    (pc = "done" /\ results # {})
        => \A s \in results \ {result} : StrOrderLess(result, s)

\* C3: no legal expression tree over a sub-multiset of the inputs that
\* evaluates to the target is simpler (fewer leaves, or as many leaves and a
\* smaller operator profile) than the returned node.  (Only a tree of no
\* more leaves than the returned node can be simpler in this sense, so the
\* trees over larger sub-multisets are not enumerated.)
C3_ReturnedIsSimplest ==
    (pc = "done" /\ result # None)
        => \A t \in LegalUpTo(StepLen(result)) :
              t[1] = target => ~Simpler(t, result)

\* A search returned a node although a less simple legal solution exists.
C3_Witness ==
    /\ pc = "done"
    /\ result # None
    /\ ~IsLeaf(result)
    /\ \E t \in LegalSolutions : Simpler(result, t)

\* C4: no exception is raised, and solve_puzzle returns None exactly when no
\* legal expression tree over a sub-multiset of the inputs evaluates to the
\* target (stated as the claim states it).
C4_NoneIffNoLegalExpression ==
    /\ err = "none"
    /\ pc = "done" => ((result = None) <=> (LegalSolutions = {}))

TargetAmongInputs == target \in {numbers[k] : k \in 1..Len(numbers)}

\* C5: when the target is among the inputs, solve is never called, no
\* internal node is built, and the bare leaf of the target is returned.
C5_ShortCircuit ==
    TargetAmongInputs
        => /\ pc \in {"start", "done"}
           /\ stack = <<>>
           /\ results = {}
           /\ err = "none"
           /\ pc = "done" => /\ result = <<target>>
                             /\ StepStr(result) = IntStr(target)

\* The target was one of several inputs and solve_puzzle has returned.
C5_Witness ==
    /\ TargetAmongInputs
    /\ Len(numbers) >= 2
    /\ pc = "done"
    /\ result = <<target>>

\* C6: for any two nodes a and b of a working list, a + b is structurally
\* equal to b + a, and a * b to b * a (stated as the claim states it).
C6_CommutativeConstructionCanonical ==
    pc = "solve"
        => \A i, j \in 1..Len(Top.numbers) :
              i # j => LET a == Top.numbers[i]
                           b == Top.numbers[j]
                       IN  /\ StepAdd(a, b) = StepAdd(b, a)
                           /\ StepMul(a, b) = StepMul(b, a)

\* C7: no remainder is taken by zero, and no operation produces a node of
\* value 0 (stated as the claim states it, for any integer inputs).
C7_NoDivisionByZero ==
    /\ err # "ZeroDivisionError"
    /\ \A s \in HeldSteps : ~IsLeaf(s) => value(s) # 0

\* C8 as stated: when the search is complete the solution set holds (up to
\* the operand order of + and * ) every legal tree that evaluates to the
\* target.
C8_EveryLegalSolutionCollected ==
    pc = "rank" => \A t \in LegalSolutions : \E u \in results : CommEq(t, u)

\* C8 as amended: solve recurses on a candidate only when its value differs
\* from the target, and records it otherwise; when the search is complete
\* the solution set holds, up to the operand order of + and *, exactly the
\* legal trees that evaluate to the target and have no proper subexpression
\* of that value.  (The node a call was entered for is the last of its
\* list, and the candidate a call handled last is the yield before i; both
\* are read in the innermost call, which every call is when it runs.)
C8_RecursesOnlyOnMismatch ==
    /\ Len(stack) >= 2 => value(Top.numbers[Len(Top.numbers)]) # target
    /\ (pc = "solve" /\ Top.i > 1) =>
          LET y == Top.gen.yields[Top.i - 1]
          IN  value(y) = target => y \in results
    /\ pc = "rank" =>
          LET legal == {t \in LegalSolutions : ~HasValueBelow(t, target)}
          IN  /\ \A u \in results :
                    /\ value(u) = target
                    /\ ~HasValueBelow(u, target)
                    /\ \E t \in legal : CommEq(t, u)
              /\ \A t \in legal : \E u \in results : CommEq(t, u)

\* A complete search that left out a legal solution because one of its
\* proper subexpressions has the target's value.
C8_Witness ==
    /\ pc = "rank"
    /\ results # {}
    /\ \E t \in LegalSolutions : HasValueBelow(t, target)

\* The leaves of a Step, left to right, and of a list of Steps.
RECURSIVE Leaves(_)
Leaves(s) == IF IsLeaf(s) THEN <<value(s)>> ELSE Leaves(left(s)) \o Leaves(right(s))

RECURSIVE ListLeaves(_)
ListLeaves(list) ==
    IF list = <<>> THEN <<>> ELSE Leaves(Head(list)) \o ListLeaves(Tail(list))

CountOf(seq, x) == Cardinality({k \in 1..Len(seq) : seq[k] = x})
Range(seq) == {seq[k] : k \in 1..Len(seq)}
SameBag(a, b) == \A x \in Range(a) \cup Range(b) : CountOf(a, x) = CountOf(b, x)
SubBag(a, b) == \A x \in Range(a) : CountOf(a, x) <= CountOf(b, x)

\* C9: at every call of solve the leaves of the working list are the inputs,
\* each as often as it was supplied; a recursive call's list is the caller's
\* with one occurrence of each operand removed and the new node appended; no
\* branch makes more than n - 1 combinations, and no solution uses an input
\* more often than it was supplied.  (A call's list never changes, so it is
\* read while the call is the innermost one; a solution is read when the
\* generator yields it, and again when it is returned.)
C9_WorkingListPartitionsInputs ==
    /\ Len(stack) <= Len(numbers)
    /\ pc = "solve" =>
          /\ SameBag(ListLeaves(Top.numbers), numbers)
          /\ Len(Top.numbers) = Len(numbers) - (Len(stack) - 1)
          /\ Len(stack) > 1 =>
                LET caller == stack[Len(stack) - 1]
                    r == caller.gen.yields[caller.i - 1]
                IN  /\ Top.numbers[Len(Top.numbers)] = r
                    /\ SameBag(Top.numbers \o <<left(r), right(r)>>,
                               caller.numbers \o <<r>>)
    /\ (pc = "solve" /\ Top.i <= Len(Top.gen.yields)) =>
          SubBag(Leaves(Top.gen.yields[Top.i]), numbers)
    /\ (pc = "done" /\ result # None) =>
          result \in results \cup {<<target>>} /\ SubBag(Leaves(result), numbers)

\* The deepest call of a search over inputs that hold a value twice.
C9_Witness ==
    /\ pc = "solve"
    /\ Len(numbers) >= 3
    /\ Len(stack) = Len(numbers)
    /\ \E i, j \in 1..Len(numbers) : i # j /\ numbers[i] = numbers[j]

\* What an operator makes of two values.
Apply(o, a, b) ==
    CASE o = "+" -> a + b
      [] o = "-" -> a - b
      [] o = "*" -> a * b
      [] o = "/" -> a \div b

RECURSIVE WellFormed(_)
WellFormed(s) ==
    \/ Len(s) = 1
    \/ /\ Len(s) = 4
       /\ s[3] \in {"+", "-", "*", "/"}
       /\ WellFormed(s[2])
       /\ WellFormed(s[4])
       /\ s[3] = "-" => s[2][1] > s[4][1]
       /\ s[3] = "*" => s[2][1] # 1 /\ s[4][1] # 1
       /\ s[3] = "/" => s[4][1] > 1 /\ s[2][1] % s[4][1] = 0
       /\ s[1] = Apply(s[3], s[2][1], s[4][1])

\* C10: for positive inputs every node built is well-formed, also after the
\* canonical swap, and the ValueError of solve is never raised.  (A node is
\* built when the generator yields it: it is then the innermost call's
\* yield at i, and its operands are nodes built before it.)
C10_NodesWellFormed ==
    AllPositive =>
        /\ err # "ValueError"
        /\ (pc = "solve" /\ Top.i <= Len(Top.gen.yields)) =>
              WellFormed(Top.gen.yields[Top.i])
        /\ (pc = "done" /\ result # None) => WellFormed(result)

\* A generator has built a + or * node from a pair it had to swap.
C10_Witness ==
    /\ AllPositive
    /\ pc = "solve"
    /\ \E i, j \in 1..Len(Top.numbers) :
          /\ i < j
          /\ StepLt(Top.numbers[i], Top.numbers[j])
          /\ ~IsLeaf(Top.numbers[j])
          /\ \E y \in Range(Top.gen.yields) :
                /\ op(y) \in {"+", "*"}
                /\ left(y) = Top.numbers[j]
                /\ right(y) = Top.numbers[i]

====
